---- MODULE Spec2Model ----
(***************************************************************************)
(* Model of the Ucore SDK: the constructor and its network-identification  *)
(* promise (index), the readiness gate netId (helpers), the Controller     *)
(* wrappers enterMarkets / exitMarket (controller.ts) and the UCORE / UAI  *)
(* wrappers (ucore).  JavaScript strings are sequences of one-character    *)
(* strings; JavaScript values carry their typeof tag; a promise is a       *)
(* position of the call that awaits it.                                    *)
(***************************************************************************)
EXTENDS Integers, Sequences, FiniteSets, TLC

\* ------------------------------------------------------------------ bounds

\* Instances of the SDK that may be constructed.
NumInst == 2
\* Method calls that may be in flight together.
MaxCalls == 2
\* Leading characters of an address argument that vary over AddrChars.
MaxVar == 2

\* ------------------------------------------------- characters and strings

UpperChars == <<"A", "B", "C", "D", "E", "F", "G", "X">>
LowerChars == <<"a", "b", "c", "d", "e", "f", "g", "x">>
DigitChars == <<"0", "1", "2", "3", "4", "5", "6", "7", "8", "9">>
HexLetters == {"a", "b", "c", "d", "e", "f", "A", "B", "C", "D", "E", "F"}

Range(s) == {s[i] : i \in DOMAIN s}

IndexIn(ch, s) == CHOOSE i \in DOMAIN s : s[i] = ch

IsDigit(ch) == ch \in Range(DigitChars)

IsHexChar(ch) == IsDigit(ch) \/ ch \in HexLetters

\* String.prototype.toLowerCase / toUpperCase, one character at a time.
CharToLower(ch) ==
    IF ch \in Range(UpperChars) THEN LowerChars[IndexIn(ch, UpperChars)] ELSE ch

CharToUpper(ch) ==
    IF ch \in Range(LowerChars) THEN UpperChars[IndexIn(ch, LowerChars)] ELSE ch

toLowerCase(s) == [i \in DOMAIN s |-> CharToLower(s[i])]

\* String.prototype.charCodeAt(0) (ASCII).
charCodeAt(ch) ==
    IF IsDigit(ch) THEN 47 + IndexIn(ch, DigitChars)
    ELSE IF ch = "x" THEN 120
    ELSE IF ch = "X" THEN 88
    ELSE IF ch \in Range(LowerChars) THEN 96 + IndexIn(ch, LowerChars)
    ELSE IF ch \in Range(UpperChars) THEN 64 + IndexIn(ch, UpperChars)
    ELSE IF ch = "v" THEN 118
    ELSE 63

\* String.prototype.substring(2).
substring2(s) == IF Len(s) <= 2 THEN <<>> ELSE SubSeq(s, 3, Len(s))

\* ------------------------------------------------------ toChecksumAddress

\* Length of the byte array the address is expanded into.
ExpandedLen == 40
\* Hex digits of a keccak256 digest.
HashLen == 64

RECURSIVE SumSeq(_)
SumSeq(s) == IF s = <<>> THEN 0 ELSE Head(s) + SumSeq(Tail(s))

\* ethers.utils.keccak256 of a byte array, as the sequence of its hex digits
\* (0..15) after the "0x": a fixed function of the bytes standing for the
\* digest, which the SDK only ever compares digit by digit with 8.
keccak256(bytes) ==
    [j \in 1..HashLen |->
        (SumSeq(bytes) * (j + 2) + 5 * bytes[((j - 1) % Len(bytes)) + 1] + 3 * j) % 16]

\* parseInt(hash[i], 16) for the 0-based index i of the string "0x<digest>":
\* hash[0] is "0", hash[1] is "x" and an index past the end is undefined,
\* the last two parse to NaN (-1 here), which is never >= 8.
parseIntHash(hash, i) ==
    IF i = 0 THEN 0
    ELSE IF i = 1 THEN -1
    ELSE IF i - 1 \in DOMAIN hash THEN hash[i - 1]
    ELSE -1

\* Whether toChecksumAddress throws: chars[i].charCodeAt of an undefined
\* chars[i], for some i < 40.
toChecksumAddressThrows(_address) == Len(substring2(_address)) < ExpandedLen

toChecksumAddress(_address) ==
    LET chars == substring2(toLowerCase(_address))
        expanded == [i \in 1..ExpandedLen |-> charCodeAt(chars[i])]
        hash == keccak256(expanded)
    IN  [i \in DOMAIN _address |->
            IF parseIntHash(hash, i - 1) >= 8
            THEN CharToUpper(_address[i])
            ELSE _address[i]]

\* ------------------------------------------------------ JavaScript values

Str(s) == [t |-> "string", v |-> s]
\* A number v * 10^e (v a non-negative integer), and NaN.
Num(n) == [t |-> "number", v |-> n, e |-> 0]
NaN == [t |-> "NaN", v |-> 0]
Arr(a) == [t |-> "array", v |-> a]
Undefined == [t |-> "undefined", v |-> 0]
Null == [t |-> "null", v |-> 0]
Obj(fields) == [t |-> "object", v |-> fields]
BigNum(n) == [t |-> "bignumber", v |-> n]
Bool(b) == [t |-> "boolean", v |-> b]
ErrorValue(e) == [t |-> "error", v |-> e]

\* typeof x
TypeOf(x) ==
    IF x.t \in {"array", "null", "bignumber", "error"} THEN "object"
    ELSE IF x.t = "NaN" THEN "number"
    ELSE x.t

\* A JavaScript default parameter: the default replaces undefined only.
Default(x, d) == IF x.t = "undefined" THEN d ELSE x

\* An Error: its constructor name, who made it and its message, the message
\* being the sequence of the pieces that were concatenated into it.
Error(message) == [name |-> "Error", origin |-> "sdk", message |-> message]

\* What `undefined.name` and `undefined.Controller` throw.
TypeErrorOf(what) ==
    [name |-> "TypeError", origin |-> "engine",
     message |-> <<"Cannot read property of undefined", what>>]

\* e.message = errorPrefix + e.message
PrefixMessage(errorPrefix, e) == [e EXCEPT !.message = <<errorPrefix>> \o @]

\* --------------------------------------------------------- constants tables

Mainnet == [id |-> 56, name |-> "mainnet"]
Testnet == [id |-> 97, name |-> "testnet"]
\* A network the provider can report and the address table does not list.
Unlisted == [id |-> 3, name |-> "ropsten"]
NoNetwork == [id |-> 0, name |-> ""]

Networks == {Mainnet, Testnet, Unlisted}

\* The networks `address` has an entry for.
AddressNetworks == {"mainnet", "testnet"}

SXP == <<"S", "X", "P">>
USDC == <<"U", "S", "D", "C">>
vSXP == <<"v">> \o SXP
vUSDC == <<"v">> \o USDC

\* constants.vTokens
vTokens == {vSXP, vUSDC}

\* address[network][key]: the deployed contract, a table lookup.  Contract
\* keys are one-piece names, market keys the characters of the symbol.
address(network, key) == [net |-> network, key |-> key]
NoAddress == [net |-> "", key |-> <<>>]

Controller == <<"Controller">>
UCORE == <<"UCORE">>
UcoreLens == <<"UcoreLens">>

\* abi[contract], and the ABI a caller passes in options.
abi(contract) == <<"abi", contract[1]>>
CallerAbi == <<"abi", "caller">>
NoAbi == <<>>

\* constants.decimals as loaded: USDC and USDT of the default table.
DefaultDecimals == [USDC |-> 6, USDT |-> 6]
MainnetDecimals == 18

\* CallOptions: the keys of `options` the SDK or the client looks at.
NoOptions == [abi |-> NoAbi, gasLimit |-> 0, mantissa |-> FALSE]

\* { _ucoreProvider, abi: sdkAbi, ...options }: a later key wins.
SpreadOptionsLast(sdkAbi, options) ==
    [options EXCEPT !.abi = IF options.abi = NoAbi THEN sdkAbi ELSE options.abi]

\* { ...options, _ucoreProvider, abi: sdkAbi }
SpreadOptionsFirst(sdkAbi, options) == [options EXCEPT !.abi = sdkAbi]

\* ------------------------------------------------------- steps of a method

\* What a synchronous stretch of a method ends in: a throw, a returned
\* value, or a call of eth.trx / eth.read with these arguments.
NoDispatch ==
    [kind |-> "none", to |-> NoAddress, method |-> "", params |-> <<>>,
     options |-> NoOptions]
NoError == [name |-> "", origin |-> "", message |-> <<>>]

Throw(e) == [k |-> "throw", e |-> e, d |-> NoDispatch]
ReturnError(e) == [k |-> "return", e |-> e, d |-> NoDispatch]
Dispatch(kind, to, method, params, options) ==
    [k |-> kind, e |-> NoError,
     d |-> [kind |-> kind, to |-> to, method |-> method, params |-> params,
            options |-> options]]

HasAddresses(network) == network.name \in AddressNetworks

\* The pieces of a string, joined.
RECURSIVE Join(_)
Join(s) == IF s = <<>> THEN "" ELSE Head(s) \o Join(Tail(s))

\* this._network.name of an instance whose _network is still undefined.
NetworkUnset(self) == self._network = NoNetwork

\* What `address[this._network.name].X` throws, when it throws: _network is
\* undefined, or the address table has no entry for the network.
AddressThrows(self) == NetworkUnset(self) \/ ~HasAddresses(self._network)
AddressError(self) ==
    IF NetworkUnset(self) THEN TypeErrorOf("name") ELSE TypeErrorOf("address[network]")

\* ---------------------------------------------------------- controller.ts

MutPrefixVAlways(market) == <<"v">> \o market

\* markets[i] = 'v' + markets[i] unless markets[i][0] is 'v'
PrefixV(market) ==
    IF Len(market) > 0 /\ market[1] = "v" THEN market ELSE <<"v">> \o market

IsKnownMarket(market) == PrefixV(market) \in vTokens

MutEnterMarketsLoopSkips(self, markets, i, addresses, options) ==
    LET known == SelectSeq(markets, IsKnownMarket)
    IN  IF AddressThrows(self) THEN Throw(AddressError(self))
        ELSE Dispatch("trx", address(self._network.name, Controller), "enterMarkets",
                      <<Arr([j \in DOMAIN known |->
                                address(self._network.name, PrefixV(known[j]))])>>,
                      SpreadOptionsLast(abi(Controller), options))

\* The loop of enterMarkets from index i (1-based) with the addresses
\* collected so far, and what follows the loop.
RECURSIVE enterMarketsLoop(_, _, _, _, _)
enterMarketsLoop(self, markets, i, addresses, options) ==
    IF i > Len(markets)
    THEN IF AddressThrows(self) THEN Throw(AddressError(self))
         ELSE Dispatch("trx", address(self._network.name, Controller), "enterMarkets",
                       <<Arr(addresses)>>,
                       SpreadOptionsLast(abi(Controller), options))
    ELSE LET market == PrefixV(markets[i])
         IN  IF market \notin vTokens
             THEN Throw(Error(<<"Ucore [enterMarkets] | ", "Provided market ",
                                Join(market), " is not a recognized vToken.">>))
             ELSE IF AddressThrows(self) THEN Throw(AddressError(self))
             ELSE enterMarketsLoop(self, markets, i + 1,
                      Append(addresses, address(self._network.name, market)), options)

\* enterMarkets after `await netId(this)`.
enterMarkets(self, markets0, options) ==
    LET markets1 == Default(markets0, Arr(<<>>))
        markets == IF TypeOf(markets1) = "string" THEN Arr(<<markets1.v>>) ELSE markets1
    IN  IF markets.t # "array"
        THEN Throw(Error(<<"Ucore [enterMarkets] | ",
                           "Argument markets must be an array or string.">>))
        ELSE enterMarketsLoop(self, markets.v, 1, <<>>, options)

\* exitMarket after `await netId(this)`.
exitMarket(self, market0, options) ==
    IF TypeOf(market0) # "string" \/ market0.v = <<>>
    THEN Throw(Error(<<"Ucore [exitMarkets] | ",
                       "Argument market must be a string of a vToken market name.">>))
    ELSE LET market == PrefixV(market0.v)
         IN  IF market \notin vTokens
             THEN Throw(Error(<<"Ucore [exitMarkets] | ", "Provided market ",
                                Join(market), " is not a recognized vToken.">>))
             ELSE IF AddressThrows(self) THEN Throw(AddressError(self))
             ELSE Dispatch("trx", address(self._network.name, Controller), "exitMarket",
                           <<address(self._network.name, market)>>,
                           SpreadOptionsLast(abi(Controller), options))

\* ------------------------------------------------ numbers and BigNumber

\* Decimal digits of a non-negative integer.
RECURSIVE DecString(_)
DecString(n) ==
    IF n < 10 THEN <<DigitChars[n + 1]>>
    ELSE Append(DecString(n \div 10), DigitChars[(n % 10) + 1])

RECURSIVE ParseDec(_)
ParseDec(s) ==
    IF s = <<>> THEN 0
    ELSE 10 * ParseDec(SubSeq(s, 1, Len(s) - 1)) + (IndexIn(s[Len(s)], DigitChars) - 1)

Zeros(k) == [i \in 1..k |-> "0"]

RECURSIVE TrimZeros(_)
TrimZeros(s) ==
    IF s # <<>> /\ s[Len(s)] = "0" THEN TrimZeros(SubSeq(s, 1, Len(s) - 1)) ELSE s

AllDigits(s) == \A i \in DOMAIN s : IsDigit(s[i])

\* Unary plus: ToNumber of a number, a string or a BigNumber (whose
\* valueOf is the object, so its toString is converted).
ToNumber(x) ==
    IF x.t = "number" \/ x.t = "NaN" THEN x
    ELSE IF x.t = "string" THEN (IF AllDigits(x.v) THEN Num(ParseDec(x.v)) ELSE NaN)
    ELSE IF x.t = "bignumber" THEN Num(ParseDec(x.v))
    ELSE NaN

\* x * Math.pow(10, k), exact while the product is a double.
TimesPow10(x, k) == IF x.t = "number" /\ x.v # 0 THEN [x EXCEPT !.e = @ + k] ELSE x

\* Digits a Number prints in full before it switches to exponent notation.
MaxPlainDigits == 21

\* Number.prototype.toString: the digits in full up to 21 of them, and
\* d.ddde+n beyond.
NumberToString(x) ==
    IF x.t = "NaN" THEN <<"N", "a", "N">>
    ELSE LET digits == DecString(x.v)
             n == Len(digits) + x.e
             frac == TrimZeros(Tail(digits))
         IN  IF n <= MaxPlainDigits THEN digits \o Zeros(x.e)
             ELSE <<Head(digits)>>
                  \o (IF frac = <<>> THEN <<>> ELSE <<".">> \o frac)
                  \o <<"e", "+">> \o DecString(n - 1)

\* x.toString() of a number, a string or a BigNumber.
toString(x) == IF x.t \in {"number", "NaN"} THEN NumberToString(x) ELSE x.v

\* ethers.BigNumber.from(string) accepts decimal digits only (and throws
\* on anything else that is not hex).
BigNumberFromThrows(s) == s = <<>> \/ ~AllDigits(s)
BigNumberError == [name |-> "Error", origin |-> "ethers", message |-> <<"invalid BigNumber string">>]

\* ------------------------------------------------------------------ ucore

\* The provider's own address, and what getAddress() resolves to.
UserAddress == Str(<<"0", "x", "u", "s", "e", "r">>)

\* `typeof _address !== 'string'` and the try/catch around toChecksumAddress,
\* as each function taking an address spells them out.
AddressCheckFails(_address) ==
    TypeOf(_address) # "string" \/ toChecksumAddressThrows(_address.v)

AddressCheckError(errorPrefix, _address) ==
    IF TypeOf(_address) # "string"
    THEN Error(<<errorPrefix, "Argument _address must be a string.">>)
    ELSE Error(<<errorPrefix, "Argument _address must be a valid Ethereum address.">>)

\* delegate after `await netId(this)`.
delegate(self, _address, options) ==
    IF AddressCheckFails(_address)
    THEN Throw(AddressCheckError("Ucore [delegate] | ", _address))
    ELSE IF AddressThrows(self) THEN Throw(AddressError(self))
    ELSE Dispatch("trx", address(self._network.name, UCORE), "delegate",
                  <<Str(toChecksumAddress(_address.v))>>,
                  SpreadOptionsFirst(abi(UCORE), options))

\* !Object.isExtensible(signature) || !signature.v || !signature.r || !signature.s
SignatureRejected(signature) ==
    \/ signature.t # "object"
    \/ signature.v.v = ""
    \/ signature.v.r = ""
    \/ signature.v.s = ""

EmptySignature == Obj([v |-> "", r |-> "", s |-> ""])

\* delegateBySig after `await netId(this)`.
delegateBySig(self, _address, nonce, expiry, signature0, options) ==
    LET errorPrefix == "Ucore [delegateBySig] | "
        signature == Default(signature0, EmptySignature)
    IN  IF AddressCheckFails(_address)
        THEN Throw(AddressCheckError(errorPrefix, _address))
        ELSE IF TypeOf(nonce) # "number"
        THEN Throw(Error(<<errorPrefix, "Argument nonce must be an integer.">>))
        ELSE IF TypeOf(expiry) # "number"
        THEN Throw(Error(<<errorPrefix, "Argument expiry must be an integer.">>))
        ELSE IF SignatureRejected(signature)
        THEN Throw(Error(<<errorPrefix, "Argument signature must be an object that ",
                           "contains the v, r, and s pieces of an EIP-712 signature.">>))
        ELSE IF AddressThrows(self) THEN Throw(AddressError(self))
        ELSE Dispatch("trx", address(self._network.name, UCORE), "delegateBySig",
                      <<Str(toChecksumAddress(_address.v)), nonce, expiry,
                        Str(<<signature.v.v>>), Str(<<signature.v.r>>),
                        Str(<<signature.v.s>>)>>,
                      SpreadOptionsFirst(abi(UCORE), options))

\* this._provider.address, undefined unless the provider is a wallet.
ProviderAddress(provider) == IF provider.kind = "wallet" THEN UserAddress ELSE Undefined

\* !userAddress && this._provider.getAddress
AsksForAddress(provider) == provider.kind = "signer"

ProviderError == [name |-> "Error", origin |-> "provider", message |-> <<"unknown account">>]
NetworkError == [name |-> "Error", origin |-> "provider", message |-> <<"could not detect network">>]
ClientError == [name |-> "Error", origin |-> "client", message |-> <<"execution reverted">>]
SignError == [name |-> "Error", origin |-> "signer", message |-> <<"user denied signature">>]

\* The catch block of claimUcore: e.message = errorPrefix + e.message; return e
claimUcoreCatch(e) == ReturnError(PrefixMessage("Ucore [claimUcore] | ", e))

\* claimUcore inside its try block, once userAddress is known.
claimUcore(self, userAddress, options) ==
    IF AddressThrows(self) THEN claimUcoreCatch(AddressError(self))
    ELSE Dispatch("trx", address(self._network.name, Controller), "claimUcore(address)",
                  <<userAddress>>, SpreadOptionsFirst(abi(Controller), options))

\* BigNumber.from drops leading zeros.
RECURSIVE StripLeadingZeros(_)
StripLeadingZeros(s) ==
    IF Len(s) > 1 /\ Head(s) = "0" THEN StripLeadingZeros(Tail(s)) ELSE s

\* The amount mintUAI / repayUAI hand to BigNumber.from: scaled by 10^18
\* unless options.mantissa.
ScaledAmountString(amount, options) ==
    IF ~options.mantissa THEN toString(TimesPow10(ToNumber(amount), 18))
    ELSE toString(amount)

AmountTypeRejected(amount) ==
    TypeOf(amount) # "number" /\ TypeOf(amount) # "string" /\ amount.t # "bignumber"

\* mintUAI after `await netId(this)`.
mintUAI(self, mintUAIAmount, options) ==
    IF AmountTypeRejected(mintUAIAmount)
    THEN Throw(Error(<<"Ucore [mintUAI] | ",
                       "Argument amount must be a string, number, or BigNumber.">>))
    ELSE IF BigNumberFromThrows(ScaledAmountString(mintUAIAmount, options))
    THEN Throw(BigNumberError)
    ELSE IF AddressThrows(self)
    THEN ReturnError(PrefixMessage("Ucore [mintUAI] | ", AddressError(self)))
    ELSE Dispatch("trx", address(self._network.name, Controller), "mintUAI",
                  <<BigNum(StripLeadingZeros(ScaledAmountString(mintUAIAmount, options)))>>,
                  SpreadOptionsFirst(abi(Controller), options))

\* repayUAI after `await netId(this)`.
repayUAI(self, repayUAIAmount, options) ==
    IF AmountTypeRejected(repayUAIAmount)
    THEN Throw(Error(<<"Ucore [mintUAI] | ",
                       "Argument amount must be a string, number, or BigNumber.">>))
    ELSE IF BigNumberFromThrows(ScaledAmountString(repayUAIAmount, options))
    THEN Throw(BigNumberError)
    ELSE IF AddressThrows(self)
    THEN ReturnError(PrefixMessage("Ucore [repayUAI] | ", AddressError(self)))
    ELSE Dispatch("trx", address(self._network.name, Controller), "repayUAI",
                  <<BigNum(StripLeadingZeros(ScaledAmountString(repayUAIAmount, options)))>>,
                  SpreadOptionsFirst(abi(Controller), options))

\* A read of the Controller that takes an address (the body shared by
\* getMintableUAI, mintedUAIOf and mintedUAIs).  None of them awaits netId.
AddressRead(self, errorPrefix, method, _address, options) ==
    IF AddressCheckFails(_address)
    THEN Throw(AddressCheckError(errorPrefix, _address))
    ELSE IF AddressThrows(self) THEN Throw(AddressError(self))
    ELSE Dispatch("read", address(self._network.name, Controller), method,
                  <<Str(toChecksumAddress(_address.v))>>,
                  SpreadOptionsFirst(abi(Controller), options))

getMintableUAI(self, _address, options) ==
    AddressRead(self, "Ucore [getMintableUAI] | ", "getMintableUAI", _address, options)

mintedUAIOf(self, _address, options) ==
    AddressRead(self, "Ucore [mintedUAIOf] | ", "mintedUAIOf", _address, options)

mintedUAIs(self, _address, options) ==
    AddressRead(self, "Ucore [mintedUAIs] | ", "mintedUAIs", _address, options)

\* A read of the Controller without arguments: getUAIMintRate,
\* mintUAIGuardianPaused, repayUAIGuardianPaused, uaiController, uaiMintRate.
\* None of them awaits netId.
PlainRead(self, method, options) ==
    IF AddressThrows(self) THEN Throw(AddressError(self))
    ELSE Dispatch("read", address(self._network.name, Controller), method, <<>>,
                  SpreadOptionsFirst(abi(Controller), options))

\* getUcoreBalance once its provider's network `net` is known.
getUcoreBalance(net, _address) ==
    IF AddressCheckFails(_address)
    THEN Throw(AddressCheckError("Ucore [getUcoreBalance] | ", _address))
    ELSE IF ~HasAddresses(net) THEN Throw(TypeErrorOf("address[network]"))
    ELSE Dispatch("read", address(net.name, UCORE), "balanceOf",
                  <<Str(toChecksumAddress(_address.v))>>,
                  [NoOptions EXCEPT !.abi = abi(UCORE)])

\* getUcoreAccrued once its provider's network `net` is known.
getUcoreAccrued(net, _address) ==
    IF AddressCheckFails(_address)
    THEN Throw(AddressCheckError("Ucore [getUcoreAccrued] | ", _address))
    ELSE IF ~HasAddresses(net) THEN Throw(TypeErrorOf("address[network]"))
    ELSE Dispatch("read", address(net.name, UcoreLens), "getXVSBalanceMetadataExt",
                  <<address(net.name, UCORE), address(net.name, Controller),
                    Str(toChecksumAddress(_address.v))>>,
                  [NoOptions EXCEPT !.abi = abi(UcoreLens)])

\* createDelegateSignature: the read of nonces(userAddress).
createDelegateSignatureRead(self, userAddress) ==
    Dispatch("read", address(self._network.name, UCORE),
             "function nonces(address) returns (uint)", <<userAddress>>, NoOptions)

\* `expiry = 10e9`
DefaultExpiry == [t |-> "number", v |-> 10, e |-> 9]

\* createDelegateSignatureSign signing a nonce of its own.
MutSignFreshNonce(self, delegatee, expiry, result) ==
    Dispatch("sign", NoAddress, "Delegation",
             <<[name |-> "Ucore", chainId |-> self._network.id,
                verifyingContract |-> address(self._network.name, UCORE)],
               [delegatee |-> delegatee, nonce |-> Num(0),
                expiry |-> Default(expiry, DefaultExpiry)]>>,
             NoOptions)

\* createDelegateSignature: the call of sign(domain, primaryType, message,
\* types, signer) once the nonce read has returned `result`.
createDelegateSignatureSign(self, delegatee, expiry, result) ==
    Dispatch("sign", NoAddress, "Delegation",
             <<[name |-> "Ucore", chainId |-> self._network.id,
                verifyingContract |-> address(self._network.name, UCORE)],
               [delegatee |-> delegatee,
                nonce |-> ToNumber(Str(toString(result))),
                expiry |-> Default(expiry, DefaultExpiry)]>>,
             NoOptions)

\* What the awaited eth.read result is turned into.
ReadReturn(fn, result) ==
    IF fn = "getMintableUAI"
    THEN IF Len(result.v) > 1 /\ toString(result.v[1]) = <<"0">>
         THEN [k |-> "value", e |-> NoError, v |-> Str(toString(result.v[2]))]
         ELSE [k |-> "throw", v |-> Undefined,
               e |-> Error(<<"Ucore [getMintableUAI] | ", "Contract error occured">>)]
    ELSE IF fn \in {"getUAIMintRate", "uaiMintRate", "mintedUAIOf", "mintedUAIs",
                    "getUcoreBalance"}
    THEN [k |-> "value", e |-> NoError, v |-> Str(toString(result))]
    ELSE IF fn = "getUcoreAccrued"
    THEN [k |-> "value", e |-> NoError, v |-> Str(toString(result.v.allocated))]
    ELSE [k |-> "value", e |-> NoError, v |-> result]

\* What the contract may answer to the read a function makes.
ReadResponses(fn) ==
    IF fn = "getMintableUAI"
    THEN {Arr(<<BigNum(<<"0">>), BigNum(<<"7">>)>>), Arr(<<BigNum(<<"1">>), BigNum(<<"0">>)>>)}
    ELSE IF fn \in {"mintUAIGuardianPaused", "repayUAIGuardianPaused"} THEN {Bool(FALSE)}
    ELSE IF fn = "uaiController" THEN {Str(<<"0", "x", "c">>)}
    ELSE IF fn = "getUcoreAccrued" THEN {Obj([allocated |-> BigNum(<<"7">>)])}
    ELSE IF fn = "createDelegateSignature" THEN {BigNum(<<"0">>), BigNum(<<"4", "2">>)}
    ELSE {BigNum(<<"7">>)}

TrxResponse == [t |-> "trxResponse", v |-> 0]
SignatureValue == Obj([v |-> "0x1b", r |-> "0xr", s |-> "0xs"])

\* What a rejection of the promise eth.trx / eth.read returned becomes in
\* the method: `return eth.trx(...)` is not awaited inside the try blocks
\* and no read is wrapped in one, so the rejection passes through.
MutClientRejectionCaught(fn, e) ==
    IF fn = "claimUcore" THEN claimUcoreCatch(e)
    ELSE IF fn = "mintUAI" THEN ReturnError(PrefixMessage("Ucore [mintUAI] | ", e))
    ELSE IF fn = "repayUAI" THEN ReturnError(PrefixMessage("Ucore [repayUAI] | ", e))
    ELSE Throw(e)

ClientRejection(fn, e) == Throw(e)

\* ------------------------------------------------------------ constructor

\* The functions the controller module exports (spread into the instance).
ControllerExports == {"enterMarkets", "exitMarket"}

\* The functions the ucore module exports.
UcoreExports ==
    {"getUcoreBalance", "getUcoreAccrued", "claimUcore", "delegate", "delegateBySig",
     "createDelegateSignature", "getMintableUAI", "getUAIMintRate",
     "mintUAIGuardianPaused", "repayUAIGuardianPaused", "mintedUAIOf", "mintedUAIs",
     "uaiController", "uaiMintRate", "mintUAI", "repayUAI"}

\* comp.<name>: the export, or undefined.
comp(name) == IF name \in UcoreExports THEN name ELSE "undefined"

\* The members the constructor gives an instance: `...controller` and the
\* fourteen `name: comp.name` pairs, each member mapped to the function it
\* holds ("undefined" when comp has no export of that name).
ConstructorMembers ==
    [m \in ControllerExports \cup
           {"claimUcore", "delegate", "delegateBySig", "createDelegateSignature",
            "getMintableVAI", "getVAIMintRate", "mintVAIGuardianPaused",
            "repayVAIGuardianPaused", "mintedVAIOf", "mintedVAIs", "vaiController",
            "vaiMintRate", "mintVAI", "repayVAI"} |->
        IF m \in ControllerExports THEN m ELSE comp(m)]

Providers == {[kind |-> "wallet"], [kind |-> "signer"], [kind |-> "plain"]}
NoProvider == [kind |-> "none"]

\* ------------------------------------------------------------------- state

VARIABLES
    \* constants.decimals, the one table every importer shares (Ucore.decimals)
    decimals,
    \* the instances: constructed or not, with _provider, _networkPromise
    \* ("pending", "rejected" or "absent"), _network, and whether
    \* instance.decimals has been pointed at the shared table
    inst,
    \* the method calls: function, instance, arguments, where the call stands
    \* (pc), what it has dispatched (sent), how the client answered the last
    \* dispatch (client) and how the call's own promise settled (result)
    calls

vars == <<decimals, inst, calls>>

Inst == 1..NumInst
Calls == 1..MaxCalls

NoInstance ==
    [constructed |-> FALSE, _provider |-> NoProvider, _networkPromise |-> "absent",
     _network |-> NoNetwork, decimals |-> "undefined", members |-> <<>>]

NoArgs == [p |-> <<>>, options |-> NoOptions]
NoResult == [status |-> "pending", value |-> Undefined]

IdleCall ==
    [fn |-> "", inst |-> 0, args |-> NoArgs, pc |-> "idle", early |-> FALSE,
     sent |-> <<>>, client |-> "", got |-> Undefined, result |-> NoResult,
     net |-> NoNetwork]

Init ==
    /\ decimals = DefaultDecimals
    /\ inst = [i \in Inst |-> NoInstance]
    /\ calls = [c \in Calls |-> IdleCall]

\* new Ucore(provider): the object literal and the start of network
\* identification.  Instances are numbered in the order they are made.
Construct(i, provider) ==
    /\ ~inst[i].constructed
    /\ IF i = 1 THEN TRUE ELSE inst[i - 1].constructed
    /\ inst' = [inst EXCEPT ![i] =
                    [constructed |-> TRUE, _provider |-> provider,
                     _networkPromise |-> "pending", _network |-> NoNetwork,
                     decimals |-> "undefined", members |-> ConstructorMembers]]
    /\ UNCHANGED <<decimals, calls>>

\* network.id === 56 || network.name === "mainnet"
IsMainnet(network) == network.id = 56 \/ network.name = "mainnet"

\* The callback leaving _networkPromise on the instance.
MutNetworkResolvedKeepsPromise(i, network) ==
    /\ inst[i].constructed
    /\ inst[i]._networkPromise = "pending"
    /\ decimals' = decimals
    /\ inst' = [inst EXCEPT ![i].decimals = "shared", ![i]._network = network]
    /\ UNCHANGED calls

\* The callback the constructor chains on eth.getProviderNetwork(provider):
\* instance.decimals is the shared table, which the mainnet branch writes to.
NetworkResolved(i, network) ==
    /\ inst[i].constructed
    /\ inst[i]._networkPromise = "pending"
    /\ decimals' = IF IsMainnet(network)
                   THEN [decimals EXCEPT !.USDC = MainnetDecimals, !.USDT = MainnetDecimals]
                   ELSE decimals
    /\ inst' = [inst EXCEPT ![i].decimals = "shared",
                            ![i]._networkPromise = "absent",
                            ![i]._network = network]
    /\ UNCHANGED calls

\* eth.getProviderNetwork(provider) rejects: the callback never runs and
\* _networkPromise stays on the instance, rejected.
NetworkRejected(i) ==
    /\ inst[i].constructed
    /\ inst[i]._networkPromise = "pending"
    /\ inst' = [inst EXCEPT ![i]._networkPromise = "rejected"]
    /\ UNCHANGED <<decimals, calls>>

\* ------------------------------------------------------------ method calls

\* The methods that start with `await netId(this)`.
GatedFns ==
    {"enterMarkets", "exitMarket", "claimUcore", "delegate", "delegateBySig",
     "createDelegateSignature", "mintUAI", "repayUAI"}

\* The instance methods that read this._network at once.
AddressReadFns == {"getMintableUAI", "mintedUAIOf", "mintedUAIs"}
PlainReadFns ==
    {"getUAIMintRate", "mintUAIGuardianPaused", "repayUAIGuardianPaused",
     "uaiController", "uaiMintRate"}
UngatedFns == AddressReadFns \cup PlainReadFns

\* Ucore.ucore.*: they make their own provider.
StaticFns == {"getUcoreBalance", "getUcoreAccrued"}

\* Every function that dispatches to the client.
BlockchainFns == GatedFns \cup UngatedFns \cup StaticFns

Arg(args, k) == IF k <= Len(args.p) THEN args.p[k] ELSE Undefined

\* The call after a synchronous stretch that ended in `step`; netKnown
\* records whether the instance's network was resolved when it dispatched.
After(call, step, netKnown) ==
    IF step.k = "throw"
    THEN [call EXCEPT !.pc = "done",
                      !.result = [status |-> "rejected", value |-> ErrorValue(step.e)]]
    ELSE IF step.k = "return"
    THEN [call EXCEPT !.pc = "done",
                      !.result = [status |-> "fulfilled", value |-> ErrorValue(step.e)]]
    ELSE [call EXCEPT !.pc = IF step.k = "sign" THEN "sign" ELSE "client",
                      !.sent = Append(@, [d |-> step.d, netKnown |-> netKnown])]

\* `this` of a call: the instance it was made on (none for a static call).
This(call) == IF call.inst \in Inst THEN inst[call.inst] ELSE NoInstance

\* netId: `if (_ucore._networkPromise) await _ucore._networkPromise`
netIdWaits(self) == self._networkPromise # "absent"

\* A gated method is called on instance i: it runs up to `await netId(this)`.
\* Calls are numbered in the order they are made.
Invoke(c, i, fn, args) ==
    /\ calls[c].pc = "idle"
    /\ IF c = 1 THEN TRUE ELSE calls[c - 1].pc # "idle"
    /\ inst[i].constructed
    /\ fn \in GatedFns
    /\ calls' = [calls EXCEPT ![c] =
                    [IdleCall EXCEPT !.fn = fn, !.inst = i, !.args = args, !.pc = "netId",
                                     !.early = netIdWaits(inst[i])]]
    /\ UNCHANGED <<decimals, inst>>

\* The body of a gated method from `await netId(this)` to its first
\* await, return or throw.
GatedBody(fn, self, args) ==
    CASE fn = "enterMarkets" -> enterMarkets(self, Arg(args, 1), args.options)
      [] fn = "exitMarket" -> exitMarket(self, Arg(args, 1), args.options)
      [] fn = "delegate" -> delegate(self, Arg(args, 1), args.options)
      [] fn = "delegateBySig" ->
            delegateBySig(self, Arg(args, 1), Arg(args, 2), Arg(args, 3), Arg(args, 4),
                          args.options)
      [] fn = "mintUAI" -> mintUAI(self, Arg(args, 1), args.options)
      [] fn = "repayUAI" -> repayUAI(self, Arg(args, 1), args.options)
      [] fn = "claimUcore" -> claimUcore(self, ProviderAddress(self._provider), args.options)
      [] fn = "createDelegateSignature" ->
            IF AddressThrows(self) THEN Throw(AddressError(self))
            ELSE createDelegateSignatureRead(self, ProviderAddress(self._provider))

\* Whether the method stops at `await this._provider.getAddress()` first.
AwaitsAddress(fn, self) ==
    /\ AsksForAddress(self._provider)
    /\ \/ fn = "claimUcore"
       \/ fn = "createDelegateSignature" /\ ~AddressThrows(self)

\* Whether a call waiting in netId resumes: the promise it awaited (or the
\* already finished netId) has resolved, which is when the constructor's
\* callback has removed _networkPromise.
GateIsOpen(self) == self._networkPromise = "absent"

\* The call resumes after netId and runs its body.
GateOpen(c) ==
    LET call == calls[c]
        self == This(call)
    IN  /\ call.pc = "netId"
        /\ GateIsOpen(self)
        /\ calls' = [calls EXCEPT ![c] =
                IF AwaitsAddress(call.fn, self) THEN [call EXCEPT !.pc = "getAddress"]
                ELSE After(call, GatedBody(call.fn, self, call.args),
                           ~NetworkUnset(self))]
        /\ UNCHANGED <<decimals, inst>>

\* The awaited _networkPromise is rejected: netId throws its reason.
GateRejected(c) ==
    LET call == calls[c]
    IN  /\ call.pc = "netId"
        /\ This(call)._networkPromise = "rejected"
        /\ calls' = [calls EXCEPT ![c] = After(call, Throw(NetworkError), FALSE)]
        /\ UNCHANGED <<decimals, inst>>

\* this._provider.getAddress() resolves.
AddressResolved(c) ==
    LET call == calls[c]
        self == This(call)
    IN  /\ call.pc = "getAddress"
        /\ calls' = [calls EXCEPT ![c] =
                After(call,
                      IF call.fn = "claimUcore"
                      THEN claimUcore(self, UserAddress, call.args.options)
                      ELSE createDelegateSignatureRead(self, UserAddress),
                      ~NetworkUnset(self))]
        /\ UNCHANGED <<decimals, inst>>

\* this._provider.getAddress() rejects: claimUcore catches it,
\* createDelegateSignature lets it through.
AddressRejected(c) ==
    LET call == calls[c]
    IN  /\ call.pc = "getAddress"
        /\ calls' = [calls EXCEPT ![c] =
                After(call,
                      IF call.fn = "claimUcore" THEN claimUcoreCatch(ProviderError)
                      ELSE Throw(ProviderError),
                      FALSE)]
        /\ UNCHANGED <<decimals, inst>>

\* The body of a read method, which runs at once when it is called.
UngatedBody(fn, self, args) ==
    CASE fn = "getMintableUAI" -> getMintableUAI(self, Arg(args, 1), args.options)
      [] fn = "mintedUAIOf" -> mintedUAIOf(self, Arg(args, 1), args.options)
      [] fn = "mintedUAIs" -> mintedUAIs(self, Arg(args, 1), args.options)
      [] OTHER -> PlainRead(self, fn, args.options)

\* A read method is called on instance i (the exported function applied to
\* the instance): no netId, so it reads this._network as it stands.
InvokeRead(c, i, fn, args) ==
    /\ calls[c].pc = "idle"
    /\ IF c = 1 THEN TRUE ELSE calls[c - 1].pc # "idle"
    /\ inst[i].constructed
    /\ fn \in UngatedFns
    /\ calls' = [calls EXCEPT ![c] =
                    After([IdleCall EXCEPT !.fn = fn, !.inst = i, !.args = args,
                                           !.early = netIdWaits(inst[i])],
                          UngatedBody(fn, inst[i], args),
                          ~NetworkUnset(inst[i]))]
    /\ UNCHANGED <<decimals, inst>>

\* Ucore.ucore.getUcoreBalance / getUcoreAccrued is called: it awaits
\* eth._createProvider and eth.getProviderNetwork before anything else.
InvokeStatic(c, fn, args) ==
    /\ calls[c].pc = "idle"
    /\ IF c = 1 THEN TRUE ELSE calls[c - 1].pc # "idle"
    /\ fn \in StaticFns
    /\ calls' = [calls EXCEPT ![c] =
                    [IdleCall EXCEPT !.fn = fn, !.args = args, !.pc = "network"]]
    /\ UNCHANGED <<decimals, inst>>

\* eth.getProviderNetwork of a static call resolves to net.
StaticNetworkResolved(c, net) ==
    LET call == calls[c]
    IN  /\ call.pc = "network"
        /\ calls' = [calls EXCEPT ![c] =
                After([call EXCEPT !.net = net],
                      IF call.fn = "getUcoreBalance"
                      THEN getUcoreBalance(net, Arg(call.args, 1))
                      ELSE getUcoreAccrued(net, Arg(call.args, 1)),
                      TRUE)]
        /\ UNCHANGED <<decimals, inst>>

\* eth.getProviderNetwork of a static call rejects.
StaticNetworkRejected(c) ==
    LET call == calls[c]
    IN  /\ call.pc = "network"
        /\ calls' = [calls EXCEPT ![c] = After(call, Throw(NetworkError), FALSE)]
        /\ UNCHANGED <<decimals, inst>>

\* The promise of eth.trx / eth.read fulfils.
ClientFulfilled(c, response) ==
    LET call == calls[c]
        self == This(call)
        kind == call.sent[Len(call.sent)].d.kind
    IN  /\ call.pc = "client"
        /\ response \in (IF kind = "trx" THEN {TrxResponse} ELSE ReadResponses(call.fn))
        /\ calls' = [calls EXCEPT ![c] =
                IF kind = "trx"
                THEN [call EXCEPT !.pc = "done", !.client = "fulfilled", !.got = response,
                                  !.result = [status |-> "fulfilled", value |-> response]]
                ELSE IF call.fn = "createDelegateSignature"
                THEN After([call EXCEPT !.client = "fulfilled", !.got = response],
                           createDelegateSignatureSign(self, Arg(call.args, 1),
                                                       Arg(call.args, 2), response),
                           ~NetworkUnset(self))
                ELSE LET ret == ReadReturn(call.fn, response)
                     IN  IF ret.k = "throw"
                         THEN After([call EXCEPT !.client = "fulfilled", !.got = response],
                                    Throw(ret.e), TRUE)
                         ELSE [call EXCEPT !.pc = "done", !.client = "fulfilled",
                                           !.got = response,
                                           !.result = [status |-> "fulfilled",
                                                       value |-> ret.v]]]
        /\ UNCHANGED <<decimals, inst>>

\* The promise of eth.trx / eth.read rejects with the client's error.
ClientRejected(c) ==
    LET call == calls[c]
    IN  /\ call.pc = "client"
        /\ calls' = [calls EXCEPT ![c] =
                After([call EXCEPT !.client = "rejected"],
                      ClientRejection(call.fn, ClientError), TRUE)]
        /\ UNCHANGED <<decimals, inst>>

\* sign(...) of createDelegateSignature fulfils with the signature.
SignFulfilled(c) ==
    LET call == calls[c]
    IN  /\ call.pc = "sign"
        /\ calls' = [calls EXCEPT ![c] =
                [call EXCEPT !.pc = "done",
                             !.result = [status |-> "fulfilled", value |-> SignatureValue]]]
        /\ UNCHANGED <<decimals, inst>>

\* sign(...) rejects.
SignRejected(c) ==
    LET call == calls[c]
    IN  /\ call.pc = "sign"
        /\ calls' = [calls EXCEPT ![c] = After(call, Throw(SignError), TRUE)]
        /\ UNCHANGED <<decimals, inst>>

\* --------------------------------------------------------------- arguments

\* Longest list of markets handed to enterMarkets.
MaxMarkets == 2

FOO == <<"F", "O", "O">>
MarketStrings == {SXP, vSXP, vUSDC, FOO, <<"v">>, <<>>}

MarketLists == UNION {[1..n -> MarketStrings] : n \in 0..MaxMarkets}

\* Address arguments: "0x", then MaxVar characters drawn from AddrChars (a
\* hex letter in either case, a digit, a letter that is no hex digit), then
\* a fixed tail, 39, 40 or 41 characters after the "0x" in all.
AddrChars == {"a", "A", "7", "g"}
AddrTail(n) == [i \in 1..n |-> IF i % 3 = 0 THEN "b" ELSE IF i % 3 = 1 THEN "3" ELSE "e"]
AddressString(lead, len) == <<"0", "x">> \o lead \o AddrTail(len - Len(lead))
AddressStrings ==
    {AddressString(lead, len) :
        lead \in [1..MaxVar -> AddrChars],
        len \in {ExpandedLen - 1, ExpandedLen, ExpandedLen + 1}}

NonStrings == {Undefined, Null, Num(5)}
AddressArgs == {Str(a) : a \in AddressStrings} \cup NonStrings

\* A well-formed lower-case address.
GoodAddress == Str(AddressString([i \in 1..MaxVar |-> "a"], ExpandedLen))

GoodSignature == Obj([v |-> "0x1b", r |-> "0xr", s |-> "0xs"])
Signatures == {Undefined, GoodSignature, Obj([v |-> "0x1b", r |-> "", s |-> "0xs"]), Str(<<"s">>)}

Amounts ==
    {Num(0), Num(1), Num(999), Num(1000), Str(<<"5">>), Str(<<"a">>), BigNum(<<"5">>),
     Null, Undefined}

Mantissa == [NoOptions EXCEPT !.mantissa = TRUE]
\* Options of a caller who brings an ABI and a gas limit.
CallerOptions == [NoOptions EXCEPT !.abi = CallerAbi, !.gasLimit = 5]

Args1(values, options) == {[p |-> <<x>>, options |-> o] : x \in values, o \in options}

\* Every argument list the model tries for a function.
WideArgs(fn) ==
    CASE fn = "enterMarkets" ->
            Args1(NonStrings \cup {Str(m) : m \in MarketStrings}
                             \cup {Arr(l) : l \in MarketLists}, {NoOptions})
            \cup Args1({Str(SXP)}, {CallerOptions})
      [] fn = "exitMarket" ->
            Args1(NonStrings \cup {Str(m) : m \in MarketStrings}, {NoOptions})
      [] fn \in {"getUcoreBalance", "getUcoreAccrued"} -> Args1(AddressArgs, {NoOptions})
      [] fn \in {"delegate"} \cup AddressReadFns ->
            Args1(AddressArgs, {NoOptions}) \cup Args1({GoodAddress}, {CallerOptions})
      [] fn = "delegateBySig" ->
            {[p |-> <<GoodAddress, Num(1), Num(2), GoodSignature>>,
              options |-> CallerOptions]} \cup
            {[p |-> <<a, n, e, sig>>, options |-> NoOptions] :
                a \in {GoodAddress, Num(5), Str(<<"0", "x">>)},
                n \in {Num(1), Str(<<"1">>), NaN},
                e \in {Num(2), Undefined},
                sig \in Signatures}
      [] fn \in {"mintUAI", "repayUAI"} -> Args1(Amounts, {NoOptions, Mantissa})
      [] fn = "createDelegateSignature" ->
            {[p |-> <<GoodAddress>>, options |-> NoOptions],
             [p |-> <<GoodAddress, Num(100)>>, options |-> NoOptions]}
      [] fn \in PlainReadFns -> {NoArgs, [NoArgs EXCEPT !.options = CallerOptions]}
      [] OTHER -> {NoArgs}

\* One well-formed argument list per function, and the amounts either side
\* of the 21-digit limit, for the runs with several calls in flight.
MainArgs(fn) ==
    CASE fn \in {"enterMarkets", "exitMarket"} -> Args1({Str(SXP)}, {NoOptions})
      [] fn \in {"delegate", "getUcoreBalance", "getUcoreAccrued"} \cup AddressReadFns ->
            Args1({GoodAddress}, {NoOptions})
      [] fn = "delegateBySig" ->
            {[p |-> <<GoodAddress, Num(1), Num(2), GoodSignature>>, options |-> NoOptions]}
      [] fn = "mintUAI" -> Args1({Num(1), Num(1000)}, {NoOptions})
      [] fn = "repayUAI" -> Args1({Num(1)}, {NoOptions})
      [] fn = "createDelegateSignature" -> {[p |-> <<GoodAddress>>, options |-> NoOptions]}
      [] OTHER -> {NoArgs}

\* ---------------------------------------------------------- specifications

\* What happens to calls already made, whoever made them.
Progress ==
    \/ \E c \in Calls : GateOpen(c)
    \/ \E c \in Calls : GateRejected(c)
    \/ \E c \in Calls : AddressResolved(c)
    \/ \E c \in Calls : AddressRejected(c)
    \/ \E c \in Calls : StaticNetworkRejected(c)
    \/ \E c \in Calls, net \in Networks : StaticNetworkResolved(c, net)
    \/ \E c \in Calls, r \in UNION {ReadResponses(fn) : fn \in BlockchainFns}
                              \cup {TrxResponse} : ClientFulfilled(c, r)
    \/ \E c \in Calls : ClientRejected(c)
    \/ \E c \in Calls : SignFulfilled(c)
    \/ \E c \in Calls : SignRejected(c)

\* The read methods of the runs with several calls in flight: one that
\* takes an address and one that takes none.
MainReadFns == {"getMintableUAI", "getUAIMintRate"}

\* The networks and the provider of the runs with several instances and
\* several calls in flight.
MainNetworks == {Mainnet, Testnet}
Wallet == [kind |-> "wallet"]

\* Several instances and several calls in flight, one well-formed argument
\* list per function, on wallet providers of listed networks.
Next ==
    \/ \E i \in Inst : Construct(i, Wallet)
    \/ \E i \in Inst, n \in MainNetworks : NetworkResolved(i, n)
    \/ \E i \in Inst : NetworkRejected(i)
    \/ \E c \in Calls, i \in Inst, fn \in GatedFns : \E a \in MainArgs(fn) : Invoke(c, i, fn, a)
    \/ \E c \in Calls, i \in Inst, fn \in MainReadFns : \E a \in MainArgs(fn) : InvokeRead(c, i, fn, a)
    \/ \E c \in Calls : GateOpen(c)
    \/ \E c \in Calls : GateRejected(c)
    \/ \E c \in Calls,
          r \in UNION {ReadResponses(fn) : fn \in MainReadFns \cup GatedFns} \cup {TrxResponse} :
            ClientFulfilled(c, r)
    \/ \E c \in Calls : ClientRejected(c)
    \/ \E c \in Calls : SignFulfilled(c)
    \/ \E c \in Calls : SignRejected(c)

Spec == Init /\ [][Next]_vars

\* One instance and one call, every argument list.
NextArgs ==
    \/ \E p \in Providers : Construct(1, p)
    \/ \E n \in Networks : NetworkResolved(1, n)
    \/ NetworkRejected(1)
    \/ \E fn \in GatedFns : \E a \in WideArgs(fn) : Invoke(1, 1, fn, a)
    \/ \E fn \in UngatedFns : \E a \in WideArgs(fn) : InvokeRead(1, 1, fn, a)
    \/ \E fn \in StaticFns : \E a \in WideArgs(fn) : InvokeStatic(1, fn, a)
    \/ Progress

SpecArgs == Init /\ [][NextArgs]_vars

\* -------------------------------------------------------------- properties

Started(call) == call.pc # "idle"
\* The call has run past `await netId(this)` (or never had one).
PastGate(call) == call.pc \notin {"idle", "netId"}
Done(call) == call.pc = "done"
Rejected(call) == call.result.status = "rejected"
Fulfilled(call) == call.result.status = "fulfilled"
RejectedWith(call, e) == Rejected(call) /\ call.result.value = ErrorValue(e)

\* The call failed reading `.name` of an undefined this._network.
ReadUnsetNetwork(call) == RejectedWith(call, TypeErrorOf("name"))

\* The methods C1 lists.
BlockchainMethods == GatedFns \cup UngatedFns

\* C1: a blockchain-interacting instance method called at any moment after
\* construction is held until the network is known: it never dispatches
\* eth.read / eth.trx while this._network is unresolved, and it never fails
\* by reading the unresolved network.
C1_ReadinessGate ==
    \A c \in Calls :
        calls[c].fn \in BlockchainMethods =>
            /\ \A k \in DOMAIN calls[c].sent : calls[c].sent[k].netKnown
            /\ ~ReadUnsetNetwork(calls[c])

\* The methods that send a transaction, and the contract each addresses.
TrxFns ==
    {"enterMarkets", "exitMarket", "claimUcore", "delegate", "delegateBySig", "mintUAI",
     "repayUAI"}
TrxContract(fn) == IF fn \in {"delegate", "delegateBySig"} THEN UCORE ELSE Controller

\* 0x followed by exactly 40 hex digits.
IsValidAddress(s) ==
    /\ Len(s) = ExpandedLen + 2
    /\ s[1] = "0" /\ s[2] = "x"
    /\ \A i \in 3..Len(s) : IsHexChar(s[i])

\* A market symbol the table knows, with or without its v.
IsRecognisedMarket(m) == m \in vTokens \/ (<<"v">> \o m) \in vTokens

\* A non-negative integer amount given as number, numeric string or BigNumber.
IsValidAmount(x) ==
    \/ x.t = "number"
    \/ x.t = "bignumber"
    \/ x.t = "string" /\ x.v # <<>> /\ AllDigits(x.v)

\* The arguments the documentation of each transaction method asks for.
ValidArguments(fn, args) ==
    CASE fn = "enterMarkets" ->
            LET m == Arg(args, 1)
            IN  \/ m.t = "undefined"
                \/ m.t = "string" /\ IsRecognisedMarket(m.v)
                \/ m.t = "array" /\ \A i \in DOMAIN m.v : IsRecognisedMarket(m.v[i])
      [] fn = "exitMarket" -> Arg(args, 1).t = "string" /\ IsRecognisedMarket(Arg(args, 1).v)
      [] fn = "delegate" -> Arg(args, 1).t = "string" /\ IsValidAddress(Arg(args, 1).v)
      [] fn = "delegateBySig" ->
            /\ Arg(args, 1).t = "string" /\ IsValidAddress(Arg(args, 1).v)
            /\ Arg(args, 2).t = "number"
            /\ Arg(args, 3).t = "number"
            /\ Arg(args, 4) = GoodSignature
      [] fn \in {"mintUAI", "repayUAI"} -> IsValidAmount(Arg(args, 1))
      [] OTHER -> TRUE

\* C2: when network identification succeeds, a call with valid arguments to
\* a transaction method that was made while identification was pending
\* ends having dispatched exactly one eth.trx, after resolution, to the
\* Controller / UCORE contract of the resolved network (the network being
\* one the address table lists and the provider one that knows its address).
C2_PendingCallsDispatchOnce ==
    \A c \in Calls :
        LET call == calls[c]
            self == This(call)
        IN  (/\ call.fn \in TrxFns
             /\ call.early
             /\ Done(call)
             /\ ValidArguments(call.fn, call.args)
             /\ HasAddresses(self._network)
             /\ self._provider.kind = "wallet")
            => /\ Len(call.sent) = 1
               /\ call.sent[1].d.kind = "trx"
               /\ call.sent[1].netKnown
               /\ call.sent[1].d.to = address(self._network.name, TrxContract(call.fn))

\* 'Ucore [<exported name>] | '
ErrorTag(fn) == Join(<<"Ucore [", fn, "] | ">>)

\* The error is one a method made itself with Error(errorPrefix + ...).
IsSdkError(value) == value.t = "error" /\ value.v.origin = "sdk"

\* C3: every error a function raises from its argument checks has a message
\* that begins 'Ucore [<that function's exported name>] | '.
C3_ErrorsTaggedWithFunctionName ==
    \A c \in Calls :
        (Rejected(calls[c]) /\ IsSdkError(calls[c].result.value))
            => Head(calls[c].result.value.v.message) = ErrorTag(calls[c].fn)

\* C4: the shared decimals table (Ucore.decimals) is never mutated.
C4_DecimalsNeverMutated == decimals = DefaultDecimals

\* The UAI / governance-token functions documented as ucore.<name>(...).
DocumentedMembers ==
    {"claimUcore", "delegate", "delegateBySig", "createDelegateSignature",
     "getMintableUAI", "getUAIMintRate", "mintUAIGuardianPaused",
     "repayUAIGuardianPaused", "mintedUAIOf", "mintedUAIs", "uaiController",
     "uaiMintRate", "mintUAI", "repayUAI"}

\* C5: every instance exposes each documented function as a member of the
\* same name, and no member the constructor assigns is undefined.
C5_InstanceExposesDocumentedMembers ==
    \A i \in Inst :
        inst[i].constructed =>
            /\ \A name \in DocumentedMembers :
                    name \in DOMAIN inst[i].members /\ inst[i].members[name] = name
            /\ \A m \in DOMAIN inst[i].members : inst[i].members[m] # "undefined"

\* The call has reached its argument checks: it is past netId with the
\* network resolved, or past getProviderNetwork for a static function.
ReachedChecks(call) ==
    IF call.fn \in GatedFns THEN PastGate(call) /\ ~NetworkUnset(This(call))
    ELSE IF call.fn \in StaticFns THEN call.pc \notin {"idle", "network"} /\ call.net # NoNetwork
    ELSE Started(call)

\* The list enterMarkets works on: [] by default, a string wrapped.
MarketList(m) ==
    IF m.t = "undefined" THEN <<>> ELSE IF m.t = "string" THEN <<m.v>> ELSE m.v

\* 'v' + symbol, or the symbol when it already starts with 'v'.
VKey(symbol) == IF symbol[1] = "v" THEN symbol ELSE <<"v">> \o symbol

\* C6: enterMarkets resolves markets by table lookup: for a string or a list
\* of recognised symbols on a resolved network N with addresses, exactly one
\* eth.trx goes to address[N].Controller, method 'enterMarkets', its single
\* parameter the list of address[N][VKey(symbol_i)] in order (a string is a
\* one-element list, the default is the empty list).
C6_EnterMarketsLookup ==
    \A c \in Calls :
        LET call == calls[c]
            self == This(call)
            m == Arg(call.args, 1)
            list == MarketList(m)
            N == self._network.name
        IN  (/\ call.fn = "enterMarkets"
             /\ ReachedChecks(call)
             /\ HasAddresses(self._network)
             /\ m.t \in {"undefined", "string", "array"}
             /\ \A i \in DOMAIN list : IsRecognisedMarket(list[i]))
            => /\ Len(call.sent) = 1
               /\ call.sent[1].d.kind = "trx"
               /\ call.sent[1].d.to = address(N, Controller)
               /\ call.sent[1].d.method = "enterMarkets"
               /\ call.sent[1].d.params =
                      <<Arr([i \in DOMAIN list |-> address(N, VKey(list[i]))])>>

\* enterMarkets has dispatched for a list that mixes both spellings.
C6_Witness ==
    \E c \in Calls :
        /\ calls[c].fn = "enterMarkets"
        /\ Arg(calls[c].args, 1) = Arr(<<SXP, vUSDC>>)
        /\ calls[c].pc = "client"

\* Market input the two functions are documented to refuse.
MalformedMarkets(fn, args) ==
    LET m == Arg(args, 1)
    IN  IF fn = "enterMarkets"
        THEN \/ m.t \notin {"undefined", "string", "array"}
             \/ \E i \in DOMAIN MarketList(m) : ~IsRecognisedMarket(MarketList(m)[i])
        ELSE \/ m.t # "string"
             \/ m.v = <<>>
             \/ ~IsRecognisedMarket(m.v)

LookupThrowsFirst(call) ==
    LET m == Arg(call.args, 1)
    IN  /\ call.fn = "enterMarkets"
        /\ ~HasAddresses(This(call)._network)
        /\ m.t \in {"string", "array"}
        /\ MarketList(m) # <<>>
        /\ IsRecognisedMarket(MarketList(m)[1])

AddressFns ==
    {"delegate", "delegateBySig", "getUcoreBalance", "getUcoreAccrued"} \cup AddressReadFns

\* The address a call handed to eth.trx / eth.read.
ForwardedAddress(call) ==
    IF call.fn = "getUcoreAccrued" THEN call.sent[1].d.params[3].v
    ELSE call.sent[1].d.params[1].v

\* C8: toChecksumAddress gives the same string for addresses that differ
\* only in letter case, so the forwarded address parameter is that of the
\* all-lowercase form, and normalising it again changes nothing.
C8_AddressCaseNormalized ==
    \A c \in Calls :
        LET call == calls[c]
            a == Arg(call.args, 1)
        IN  (/\ call.fn \in AddressFns
             /\ call.sent # <<>>
             /\ a.t = "string"
             /\ IsValidAddress(a.v))
            => /\ ForwardedAddress(call) = toChecksumAddress(toLowerCase(a.v))
               /\ toChecksumAddress(ForwardedAddress(call)) = ForwardedAddress(call)

\* The second piece of the message of the error a call was rejected with.
RejectionText(call) ==
    IF Rejected(call) /\ IsSdkError(call.result.value)
       /\ Len(call.result.value.v.message) >= 2
    THEN call.result.value.v.message[2]
    ELSE ""

\* C9: a call is forwarded only when _address is a string that is a valid
\* address; a non-string is rejected with 'must be a string', any other
\* string with 'must be a valid Ethereum address', nothing being dispatched.
C9_AddressValidated ==
    \A c \in Calls :
        LET call == calls[c]
            a == Arg(call.args, 1)
        IN  (call.fn \in AddressFns /\ ReachedChecks(call))
            => /\ call.sent # <<>> => (a.t = "string" /\ IsValidAddress(a.v))
               /\ TypeOf(a) # "string" =>
                    /\ call.sent = <<>>
                    /\ RejectionText(call) = "Argument _address must be a string."
               /\ (a.t = "string" /\ ~IsValidAddress(a.v)) =>
                    /\ call.sent = <<>>
                    /\ RejectionText(call)
                         = "Argument _address must be a valid Ethereum address."

\* C10: when the promise of the dispatched eth.trx / eth.read rejects, the
\* call's own promise rejects with that same error, its message unchanged,
\* and is never fulfilled.
C10_ClientFailuresUnmodified ==
    \A c \in Calls :
        calls[c].client = "rejected" =>
            /\ Done(calls[c])
            /\ RejectedWith(calls[c], ClientError)

\* The transaction of claimUcore has been rejected by the client.
C10_Witness ==
    \E c \in Calls :
        /\ calls[c].fn = "claimUcore"
        /\ calls[c].client = "rejected"
        /\ Len(calls[c].sent) = 1

\* C11: whenever the promise of claimUcore, mintUAI or repayUAI fulfils, its
\* value is the transaction response of the single eth.trx it dispatched,
\* never an Error value.
C11_FulfilsWithTransaction ==
    \A c \in Calls :
        LET call == calls[c]
        IN  (call.fn \in {"claimUcore", "mintUAI", "repayUAI"} /\ Fulfilled(call))
            => /\ Len(call.sent) = 1
               /\ call.sent[1].d.kind = "trx"
               /\ call.client = "fulfilled"
               /\ call.result.value = TrxResponse

\* A JavaScript number that is an integer.
IsInteger(x) == x.t = "number"

\* An object with non-empty v, r and s.
IsFullSignature(sig) ==
    sig.t = "object" /\ sig.v.v # "" /\ sig.v.r # "" /\ sig.v.s # ""

\* The message delegateBySig is to fail with: that of the first check, in
\* the order address, nonce, expiry, signature, that the arguments fail.
DelegateBySigFailure(args) ==
    LET a == Arg(args, 1)
        sig == Default(Arg(args, 4), EmptySignature)
    IN  IF AddressCheckFails(a) THEN AddressCheckError("", a).message[2]
        ELSE IF ~IsInteger(Arg(args, 2)) THEN "Argument nonce must be an integer."
        ELSE IF ~IsInteger(Arg(args, 3)) THEN "Argument expiry must be an integer."
        ELSE IF ~IsFullSignature(sig) THEN "Argument signature must be an object that "
        ELSE ""

\* C12: delegateBySig forwards only if the address is accepted, nonce and
\* expiry are integers and signature holds non-empty v, r, s; the first
\* failing check gives the error and nothing is dispatched; on success one
\* eth.trx goes to UCORE of the resolved network, method 'delegateBySig',
\* parameters [address, nonce, expiry, v, r, s].
C12_DelegateBySigChecksInOrder ==
    \A c \in Calls :
        LET call == calls[c]
            self == This(call)
            args == call.args
            sig == Default(Arg(args, 4), EmptySignature)
            failure == DelegateBySigFailure(args)
        IN  (/\ call.fn = "delegateBySig"
             /\ ReachedChecks(call)
             /\ HasAddresses(self._network))
            => IF failure # ""
               THEN /\ call.sent = <<>>
                    /\ RejectionText(call) = failure
               ELSE /\ Len(call.sent) = 1
                    /\ call.sent[1].d.kind = "trx"
                    /\ call.sent[1].d.to = address(self._network.name, UCORE)
                    /\ call.sent[1].d.method = "delegateBySig"
                    /\ call.sent[1].d.params
                         = <<Str(toChecksumAddress(Arg(args, 1).v)), Arg(args, 2),
                             Arg(args, 3), Str(<<sig.v.v>>), Str(<<sig.v.r>>),
                             Str(<<sig.v.s>>)>>

\* The positions in call.sent of the signing steps.
SignSteps(call) == {k \in DOMAIN call.sent : call.sent[k].d.kind = "sign"}

\* C13: createDelegateSignature signs at most one 'Delegation' message, one
\* when it fulfils, after the network is known and after its nonces read has
\* answered: domain {name 'Ucore', chainId and verifyingContract of the
\* instance's network}, message {delegatee, nonce the read returned, expiry
\* the argument or 10e9}; a failed read means nothing is signed.
C13_SignsOneDelegation ==
    \A c \in Calls :
        LET call == calls[c]
            self == This(call)
        IN  call.fn = "createDelegateSignature" =>
            /\ SignSteps(call) \subseteq {2}
            /\ Fulfilled(call) => SignSteps(call) = {2}
            /\ call.client = "rejected" => (SignSteps(call) = {} /\ Rejected(call))
            /\ \A k \in SignSteps(call) :
                /\ call.sent[1].d.kind = "read"
                /\ call.sent[1].d.method = "function nonces(address) returns (uint)"
                /\ call.sent[1].d.to = address(self._network.name, UCORE)
                /\ call.sent[1].netKnown /\ call.sent[k].netKnown
                /\ call.client = "fulfilled"
                /\ call.sent[k].d.method = "Delegation"
                /\ call.sent[k].d.params[1]
                     = [name |-> "Ucore", chainId |-> self._network.id,
                        verifyingContract |-> address(self._network.name, UCORE)]
                /\ call.sent[k].d.params[2]
                     = [delegatee |-> Arg(call.args, 1),
                        nonce |-> Num(ParseDec(call.got.v)),
                        expiry |-> IF Len(call.args.p) >= 2 THEN Arg(call.args, 2)
                                   ELSE DefaultExpiry]

\* A signature has been produced over a nonce the contract answered with.
C13_Witness ==
    \E c \in Calls :
        /\ calls[c].fn = "createDelegateSignature"
        /\ Fulfilled(calls[c])
        /\ SignSteps(calls[c]) = {2}
        /\ calls[c].got = BigNum(<<"4", "2">>)

\* The functions whose options are documented as carrying an optional ABI.
AbiOptionFns ==
    {"delegate", "delegateBySig", "getMintableUAI", "getUAIMintRate", "mintedUAIOf",
     "mintedUAIs", "uaiController", "uaiMintRate"}

\* C14: when the caller supplies abi in options, the ABI handed to eth.trx /
\* eth.read is the caller's, and every other option of the caller reaches
\* the dispatched call unchanged.
C14_CallerAbiHonoured ==
    \A c \in Calls :
        LET call == calls[c]
            given == call.args.options
        IN  (call.fn \in AbiOptionFns /\ call.sent # <<>>)
            => LET passed == call.sent[1].d.options
               IN  /\ given.abi # NoAbi => passed.abi = given.abi
                   /\ passed.gasLimit = given.gasLimit
                   /\ passed.mantissa = given.mantissa

\* The integer a valid amount stands for.
AmountValue(x) == IF x.t = "number" THEN x.v ELSE ParseDec(x.v)

\* The decimal digits of a, or of a * 10^18.
ExpectedAmount(x, options) ==
    IF options.mantissa \/ AmountValue(x) = 0 THEN DecString(AmountValue(x))
    ELSE DecString(AmountValue(x)) \o Zeros(18)

\* C15: for a non-negative integer amount a (number, numeric string or
\* BigNumber) mintUAI / repayUAI dispatch exactly one eth.trx to the
\* Controller whose single parameter is a when options.mantissa is truthy
\* and a * 10^18 otherwise; an amount of another type is rejected with
\* nothing dispatched.
C15_AmountScaledByMantissa ==
    \A c \in Calls :
        LET call == calls[c]
            self == This(call)
            a == Arg(call.args, 1)
        IN  (/\ call.fn \in {"mintUAI", "repayUAI"}
             /\ ReachedChecks(call)
             /\ HasAddresses(self._network))
            => /\ IsValidAmount(a) =>
                    /\ Len(call.sent) = 1
                    /\ call.sent[1].d.kind = "trx"
                    /\ call.sent[1].d.to = address(self._network.name, Controller)
                    /\ call.sent[1].d.method = call.fn
                    /\ call.sent[1].d.params
                         = <<BigNum(ExpectedAmount(a, call.args.options))>>
               /\ AmountTypeRejected(a) => (call.sent = <<>> /\ Rejected(call))

\* instance.decimals[symbol] once the callback has set instance.decimals:
\* the entry of the table the instance refers to.
InstanceDecimals(i, symbol) == decimals[symbol]

\* C16: once an instance's network is resolved, its decimals.USDC and
\* decimals.USDT are 18 exactly when its own network is mainnet (id 56 or
\* name 'mainnet') and the default values otherwise, whatever other
\* instances exist.
C16_DecimalsOfOwnNetwork ==
    \A i \in Inst :
        inst[i].decimals = "shared" =>
            \A symbol \in {"USDC", "USDT"} :
                InstanceDecimals(i, symbol)
                    = IF IsMainnet(inst[i]._network) THEN MainnetDecimals
                      ELSE DefaultDecimals[symbol]

\* Exactly one of _networkPromise and _network is on a constructed instance.
OneOfPromiseAndNetwork(self) == (self._networkPromise # "absent") # ~NetworkUnset(self)

\* Once set, _network stays as it is and _networkPromise stays removed.
NetworkStays(i) ==
    ~NetworkUnset(inst[i]) =>
        /\ inst'[i]._network = inst[i]._network
        /\ inst'[i]._networkPromise = "absent"

\* A call made on a ready instance passes netId without waiting.
ReadyCallsDoNotWait(c) ==
    (/\ calls[c].pc = "idle"
     /\ calls'[c].pc = "netId"
     /\ ~NetworkUnset(inst[calls'[c].inst]))
    => ~calls'[c].early

\* C17: on every constructed instance exactly one of _networkPromise and
\* _network is present; the change from pending to ready happens at most
\* once, in one step; once set, _network is never changed or removed, and
\* from then on netId returns without waiting.
C17_NetworkGateOneWay ==
    /\ [](\A i \in Inst : inst[i].constructed => OneOfPromiseAndNetwork(inst[i]))
    /\ [][\A i \in Inst : NetworkStays(i)]_vars
    /\ [][\A c \in Calls : ReadyCallsDoNotWait(c)]_vars

\* A method has run to its end on an instance that was ready when it was
\* called.
C17_Witness ==
    \E c \in Calls :
        /\ calls[c].fn \in GatedFns
        /\ ~calls[c].early
        /\ Done(calls[c])
        /\ ~NetworkUnset(This(calls[c]))
        /\ This(calls[c])._networkPromise = "absent"

====
